---- MODULE Spec2Model ----
(***************************************************************************)
(* Model of the arXiv knowledge-graph ingestion pipeline (script.py) and   *)
(* of the two read queries over the graph it builds (neo4j_query_api.py).  *)
(*                                                                         *)
(* Strings are sequences: file names of one-character strings, text to     *)
(* sanitize of code points, and strings the code only stores or compares   *)
(* (node keys, explanations) of atoms such as <<"Jane Doe">>.              *)
(***************************************************************************)
EXTENDS Integers, Sequences, FiniteSets, TLC

VARIABLES
    pc,               \* position of the ingestion process in script.py
    env,              \* what the process finds around it: configuration, dataset
    store_merges,     \* whether the driver runs a relationship create as match-or-create
    nodes,            \* graph store: the nodes, in order of creation (index = id)
    rels,             \* graph store: the relationships, in order of creation
    constraints,      \* graph store: the uniqueness constraints, as <<label, key>>
    mutated,          \* whether this run has issued a write to the graph store
    exit_code,        \* exit status once pc = "exited"
    metadata_map,     \* metadata rows by paper id, once loaded
    processed_count,  \* documents completed
    dirs_seen,        \* directories os.walk has yielded
    files_seen,       \* file names the inner loop has taken
    filename,         \* current file name
    arxiv_id,         \* identifier derived from it
    paper,            \* the paper dict built from the metadata row
    full_text,        \* text extracted from the PDF
    text_for_llm,     \* analysis input selected
    llm_output,       \* what the model service answered
    extracted_data,   \* what analyze_text_with_llm returned
    ops,              \* store statements of the current document still to run
    last_done,        \* history: input and store size of the last completed document
    fn_pc,      \* position of the single-function harnesses
    fn_in,      \* argument handed to the function under study
    fn_out,     \* its result
    fn_out2     \* result of applying it to its own result

fnVars == <<fn_pc, fn_in, fn_out, fn_out2>>
storeVars == <<nodes, rels, constraints, mutated>>
walkVars == <<metadata_map, processed_count, dirs_seen, files_seen, last_done>>
docVars == <<filename, arxiv_id, paper, full_text, text_for_llm, llm_output,
             extracted_data, ops>>
runVars == <<pc, env, store_merges, exit_code>>
vars == <<runVars, storeVars, walkVars, docVars, fnVars>>

----------------------------------------------------------------------------
(* Bounds of the model *)

\* longest base name (file name without ".pdf") handed to the id derivation
MaxBaseLen == 4
\* longest text handed to the sanitizer
MaxTextLen == 4
\* file names the walk yields in one run, over all directories
MaxFiles == 3
\* directories the walk yields in one run
MaxDirs == 2

----------------------------------------------------------------------------
(* Python string primitives *)

RECURSIVE SeqsUpTo(_, _)
\* all sequences over alphabet A of length at most n
SeqsUpTo(A, n) ==
    IF n = 0 THEN {<<>>}
    ELSE LET shorter == SeqsUpTo(A, n - 1)
         IN  shorter \cup {Append(s, a) : s \in {t \in shorter : Len(t) = n - 1}, a \in A}

\* s.count(c) for a one-character c
Count(s, c) == Cardinality({i \in 1..Len(s) : s[i] = c})

RECURSIVE SplitOn(_, _)
\* s.split(c) for a one-character separator c: the segments between the
\* separators, empty segments kept ("av".split("v") is ["a", ""])
SplitOn(s, c) ==
    IF \A i \in 1..Len(s) : s[i] # c THEN <<s>>
    ELSE LET k == CHOOSE i \in 1..Len(s) : s[i] = c /\ \A j \in 1..(i - 1) : s[j] # c
         IN  <<SubSeq(s, 1, k - 1)>> \o SplitOn(SubSeq(s, k + 1, Len(s)), c)

Digits == {"0", "1", "2", "3", "4", "5", "6", "7", "8", "9"}

\* s.isdigit(): non-empty and every character a digit
IsDigit(s) == Len(s) > 0 /\ \A i \in 1..Len(s) : s[i] \in Digits

DotPdf == <<".", "p", "d", "f">>

\* s.endswith(".pdf")
EndsWithPdf(s) == Len(s) >= 4 /\ SubSeq(s, Len(s) - 3, Len(s)) = DotPdf

----------------------------------------------------------------------------
(* script.py: get_arxiv_id_from_pdf_filename *)

\* the slip the derivation guards against: the test for exactly one 'v' left out
get_arxiv_id_any_v(pdf_filename) ==
    LET base_name == SubSeq(pdf_filename, 1, Len(pdf_filename) - 4)
    IN  IF Count(base_name, "v") >= 1 /\ IsDigit(SplitOn(base_name, "v")[2])
        THEN SplitOn(base_name, "v")[1]
        ELSE base_name

\* defined for names ending in ".pdf" only: for any other name the code
\* leaves base_name unassigned and raises; its one caller filters on ".pdf"
get_arxiv_id_from_pdf_filename(pdf_filename) ==
    LET base_name == SubSeq(pdf_filename, 1, Len(pdf_filename) - 4)
    IN  IF Count(base_name, "v") >= 1
           /\ Count(base_name, "v") = 1
           /\ IsDigit(SplitOn(base_name, "v")[2])
        THEN SplitOn(base_name, "v")[1]
        ELSE base_name

----------------------------------------------------------------------------
(* script.py: sanitize_text_for_llm.  Text is a sequence of code points. *)

\* code points str.split() treats as whitespace, ASCII ones
AsciiWhitespace == {9, 10, 11, 12, 13, 28, 29, 30, 31, 32}
\* and some beyond ASCII (NEL, NBSP, EM SPACE)
UnicodeWhitespace == {133, 160, 8195}
Whitespace == AsciiWhitespace \cup UnicodeWhitespace

IsAscii(c) == c >= 0 /\ c <= 127

RECURSIVE EncodeAsciiIgnore(_)
\* text.encode('ascii', 'ignore').decode('ascii'): non-ASCII code points dropped
EncodeAsciiIgnore(text) ==
    IF text = <<>> THEN <<>>
    ELSE (IF IsAscii(Head(text)) THEN <<Head(text)>> ELSE <<>>)
         \o EncodeAsciiIgnore(Tail(text))

RECURSIVE Words(_)
\* text.split(): the maximal runs of non-whitespace, in order
Words(text) ==
    IF text = <<>> THEN <<>>
    ELSE IF Head(text) \in Whitespace THEN Words(Tail(text))
    ELSE LET ends == {i \in 1..Len(text) :
                        /\ \A j \in 1..i : text[j] \notin Whitespace
                        /\ (i = Len(text) \/ text[i + 1] \in Whitespace)}
             k == CHOOSE i \in ends : TRUE
         IN  <<SubSeq(text, 1, k)>> \o Words(SubSeq(text, k + 1, Len(text)))

RECURSIVE JoinSpace(_)
\* ' '.join(words)
JoinSpace(words) ==
    IF words = <<>> THEN <<>>
    ELSE IF Len(words) = 1 THEN words[1]
    ELSE words[1] \o <<32>> \o JoinSpace(Tail(words))

\* the two passes in the other order: whitespace collapsed first, non-ASCII
\* dropped afterwards
sanitize_split_first(text) ==
    IF text = <<>> THEN <<>>
    ELSE EncodeAsciiIgnore(JoinSpace(Words(text)))

sanitize_text_for_llm(text) ==
    IF text = <<>> THEN <<>>
    ELSE LET cleaned_text == EncodeAsciiIgnore(text)
         IN  JoinSpace(Words(cleaned_text))

----------------------------------------------------------------------------
(* Values.  A string the code only stores or compares is a sequence of     *)
(* atoms, e.g. <<"Jane Doe">>; the empty string and None, which the code   *)
(* tests alike (by truth value), are both <<>>.                            *)

\* a text by where it came from and its count of whitespace-delimited words;
\* a text of no words stands for the empty string
Text(src, words) == [src |-> src, words |-> words]
NoText == Text("none", 0)
Truthy(text) == text.words > 0

\* paper_meta.get('abstract', 'No Abstract Found'), the default being 3 words
PlaceholderWords == 3

\* word counts of the text a PDF yields; 0 is the extractor's "" on failure
PdfWordCounts == {0, 100, 101}

\* len(full_text.split()) > 100, the floor of a usable full text
MinFullTextWords == 100

NoPaper ==
    [arxiv_id |-> <<>>, summary |-> NoText, authors |-> <<>>,
     categories |-> <<>>, primary_category |-> <<>>]

----------------------------------------------------------------------------
(* The graph store as py2neo drives it *)

HasNode(ns, label, key) ==
    \E i \in DOMAIN ns : ns[i].label = label /\ ns[i].key = key

NodeId(ns, label, key) ==
    CHOOSE i \in DOMAIN ns : ns[i].label = label /\ ns[i].key = key

\* graph.create(node) in place of graph.merge: a node per call
CreateNode(ns, label, key) == Append(ns, [label |-> label, key |-> key])

\* graph.merge(node, label, key): match the node of that label and key value,
\* create it when there is none
MergeNode(ns, label, key) ==
    IF HasNode(ns, label, key) THEN ns
    ELSE Append(ns, [label |-> label, key |-> key])

SameRel(r, type, s, e) == r.type = type /\ r.start = s /\ r.end = e

\* graph.create(Relationship(a, TYPE, b, why=...)) on two bound nodes.  The
\* code asks for a create; whether a relationship of that type already
\* between the two nodes is matched (and its properties overwritten) is up
\* to the driver release, which the repository does not pin: merges says
\* which of the two the driver does.
CreateRel(rs, ns, merges, type, from, to, why) ==
    LET s == NodeId(ns, from.label, from.key)
        e == NodeId(ns, to.label, to.key)
        new == [type |-> type, start |-> s, end |-> e, why |-> why]
    IN  IF merges /\ \E i \in DOMAIN rs : SameRel(rs[i], type, s, e)
        THEN [i \in DOMAIN rs |-> IF SameRel(rs[i], type, s, e) THEN new ELSE rs[i]]
        ELSE Append(rs, new)

\* the eight CREATE CONSTRAINT statements
UniquenessConstraints ==
    {<<"Paper", "arxiv_id">>, <<"Author", "name">>, <<"Category", "term">>,
     <<"Equation", "name">>, <<"Methodology", "name">>, <<"Technology", "name">>,
     <<"Cause", "description">>, <<"Effect", "description">>}

----------------------------------------------------------------------------
(* Store statements of one document, in the order the code issues them *)

Ref(label, key) == [label |-> label, key |-> key]

OpMerge(label, key) ==
    [op |-> "merge", node |-> Ref(label, key), type |-> "",
     to |-> Ref("", <<>>), why |-> <<>>]

OpCreate(from, type, to, why) ==
    [op |-> "create", node |-> from, type |-> type, to |-> to, why |-> why]

\* an exception no handler inside the loop catches
OpRaise ==
    [op |-> "raise", node |-> Ref("", <<>>), type |-> "",
     to |-> Ref("", <<>>), why |-> <<>>]

RECURSIVE CutAtRaise(_)
\* the statements up to and including the first that raises
CutAtRaise(s) ==
    IF s = <<>> THEN <<>>
    ELSE IF Head(s).op = "raise" THEN <<Head(s)>>
    ELSE <<Head(s)>> \o CutAtRaise(Tail(s))

RECURSIVE AuthorOps(_, _)
AuthorOps(authors, paper_node) ==
    IF authors = <<>> THEN <<>>
    ELSE <<OpMerge("Author", Head(authors)),
           OpCreate(Ref("Author", Head(authors)), "AUTHORED", paper_node, <<>>)>>
         \o AuthorOps(Tail(authors), paper_node)

RECURSIVE CategoryOps(_, _)
CategoryOps(categories, paper_node) ==
    IF categories = <<>> THEN <<>>
    ELSE <<OpMerge("Category", Head(categories)),
           OpCreate(paper_node, "HAS_CATEGORY", Ref("Category", Head(categories)), <<>>)>>
         \o CategoryOps(Tail(categories), paper_node)

PrimaryCategoryOps(p, paper_node) ==
    IF p.primary_category # <<>>
    THEN <<OpMerge("Category", p.primary_category),
           OpCreate(paper_node, "HAS_PRIMARY_CATEGORY",
                    Ref("Category", p.primary_category), <<>>)>>
    ELSE <<>>

\* the paper's statements with the primary category ahead of the category loop
PaperOpsPrimaryFirst(p) ==
    LET paper_node == Ref("Paper", p.arxiv_id)
    IN  <<OpMerge("Paper", p.arxiv_id)>>
        \o AuthorOps(p.authors, paper_node)
        \o PrimaryCategoryOps(p, paper_node)
        \o CategoryOps(p.categories, paper_node)

\* the Paper node, then authors, categories and the primary category
PaperOps(p) ==
    LET paper_node == Ref("Paper", p.arxiv_id)
    IN  <<OpMerge("Paper", p.arxiv_id)>>
        \o AuthorOps(p.authors, paper_node)
        \o CategoryOps(p.categories, paper_node)
        \o PrimaryCategoryOps(p, paper_node)

----------------------------------------------------------------------------
(* What the model service can answer, and what json.loads makes of it *)

\* a key of the parsed object: absent, null, or a list of items
Absent == [tag |-> "absent", items |-> <<>>]
Null == [tag |-> "null", items |-> <<>>]
List(items) == [tag |-> "list", items |-> items]

\* an item of causal_relationships: an object (a missing or empty cause,
\* effect or why is <<>>), or something that is no object
Causal(cause, effect, why) ==
    [isdict |-> TRUE, cause |-> cause, effect |-> effect, why |-> why]
NotAnObject == [isdict |-> FALSE, cause |-> <<>>, effect |-> <<>>, why |-> <<>>]

Dict(equations, methodologies, technologies, causal_relationships) ==
    [kind |-> "dict", equations |-> equations, methodologies |-> methodologies,
     technologies |-> technologies, causal_relationships |-> causal_relationships]

\* a JSON document whose top level is an array
JsonArray ==
    [kind |-> "list", equations |-> Absent, methodologies |-> Absent,
     technologies |-> Absent, causal_relationships |-> Absent]

\* the dict both except branches return: three empty lists, and no
\* causal_relationships key
DefaultResult == Dict(List(<<>>), List(<<>>), List(<<>>), Absent)

NoData == Dict(Absent, Absent, Absent, Absent)

DescA == <<"A">>
DescB == <<"B">>
DescC == <<"C">>
\* a description that only incomplete causal items carry
DescD == <<"D">>

\* well-formed answers
OnlyAB == Dict(List(<<>>), List(<<>>), List(<<>>),
               List(<<Causal(DescA, DescB, <<"w1">>)>>))
ThenBC == Dict(Absent, List(<<<<"M1">>>>), List(<<>>),
               List(<<Causal(DescB, DescC, <<"w2">>)>>))
AlsoCB == Dict(List(<<<<"E1">>>>), List(<<>>), List(<<<<"T1">>>>),
               List(<<Causal(DescC, DescB, <<"w3">>), Causal(DescD, <<>>, <<"w4">>),
                      Causal(<<>>, DescD, <<"w6">>), Causal(DescA, DescB, <<"w5">>)>>))
\* answers that are JSON but not of the expected shape
BadItem == Dict(List(<<>>), List(<<>>), List(<<>>),
                List(<<Causal(DescA, DescB, <<"w1">>), NotAnObject>>))
NullField == Dict(Null, List(<<>>), List(<<>>), List(<<>>))

Response(kind, value) == [kind |-> kind, value |-> value]
NoResponse == Response("none", NoData)

WellFormedResponses == {Response("json", d) : d \in {OnlyAB, ThenBC, AlsoCB}}
MisshapenResponses == {Response("json", d) : d \in {JsonArray, BadItem, NullField}}
FailedResponses == {Response("not_json", NoData), Response("service_error", NoData)}
LLMResponses == WellFormedResponses \cup MisshapenResponses \cup FailedResponses

\* extracted_data.get(key, []) once extracted_data is a dict
Get(field) == IF field.tag = "absent" THEN <<>> ELSE field.items

----------------------------------------------------------------------------
(* script.py: analyze_text_with_llm.  The request (and the truncation of   *)
(* the text to 6000 words before it) has no effect but the answer, which   *)
(* is the service's to choose.                                             *)

\* json.loads(llm_output) when the answer is JSON of any shape; the default
\* dict when it is not JSON (JSONDecodeError) or the call failed (Exception)
analyze_text_with_llm(text, response) ==
    IF response.kind = "json" THEN response.value
    ELSE DefaultResult

----------------------------------------------------------------------------
(* script.py: the four loops over extracted_data *)

RECURSIVE MentionOps(_, _, _, _)
MentionOps(names, label, type, paper_node) ==
    IF names = <<>> THEN <<>>
    ELSE <<OpMerge(label, Head(names)),
           OpCreate(paper_node, type, Ref(label, Head(names)), <<>>)>>
         \o MentionOps(Tail(names), label, type, paper_node)

\* for x in extracted_data.get(key, []): iterating None raises
Loop(field, body) == IF field.tag = "null" THEN <<OpRaise>> ELSE body

\* one causal item without its IDENTIFIES_EFFECT statement
CausalItemOpsNoEffectLink(causal_rel, paper_node) ==
    IF ~causal_rel.isdict THEN <<OpRaise>>
    ELSE IF causal_rel.cause # <<>> /\ causal_rel.effect # <<>>
    THEN LET cause_node == Ref("Cause", causal_rel.cause)
             effect_node == Ref("Effect", causal_rel.effect)
         IN  <<OpMerge("Cause", causal_rel.cause),
               OpMerge("Effect", causal_rel.effect),
               OpCreate(paper_node, "IDENTIFIES_CAUSE", cause_node, <<>>),
               OpCreate(cause_node, "CAUSES", effect_node, causal_rel.why)>>
    ELSE <<>>

\* one causal item with its CAUSES statement ahead of the Effect's merge
CausalItemOpsEdgeFirst(causal_rel, paper_node) ==
    IF ~causal_rel.isdict THEN <<OpRaise>>
    ELSE IF causal_rel.cause # <<>> /\ causal_rel.effect # <<>>
    THEN LET cause_node == Ref("Cause", causal_rel.cause)
             effect_node == Ref("Effect", causal_rel.effect)
         IN  <<OpMerge("Cause", causal_rel.cause),
               OpCreate(cause_node, "CAUSES", effect_node, causal_rel.why),
               OpMerge("Effect", causal_rel.effect),
               OpCreate(paper_node, "IDENTIFIES_CAUSE", cause_node, <<>>),
               OpCreate(paper_node, "IDENTIFIES_EFFECT", effect_node, <<>>)>>
    ELSE <<>>

\* one causal item: causal_rel.get on an item that is no dict raises; an
\* item without cause or effect gets a warning and no statement
CausalItemOps(causal_rel, paper_node) ==
    IF ~causal_rel.isdict THEN <<OpRaise>>
    ELSE IF causal_rel.cause # <<>> /\ causal_rel.effect # <<>>
    THEN LET cause_node == Ref("Cause", causal_rel.cause)
             effect_node == Ref("Effect", causal_rel.effect)
         IN  <<OpMerge("Cause", causal_rel.cause),
               OpMerge("Effect", causal_rel.effect),
               OpCreate(paper_node, "IDENTIFIES_CAUSE", cause_node, <<>>),
               OpCreate(paper_node, "IDENTIFIES_EFFECT", effect_node, <<>>),
               OpCreate(cause_node, "CAUSES", effect_node, causal_rel.why)>>
    ELSE <<>>

RECURSIVE CausalOps(_, _)
CausalOps(items, paper_node) ==
    IF items = <<>> THEN <<>>
    ELSE CausalItemOps(Head(items), paper_node) \o CausalOps(Tail(items), paper_node)

\* extracted_data.get on a value that is no dict raises at the first loop
FactOps(data, p) ==
    LET paper_node == Ref("Paper", p.arxiv_id)
    IN  IF data.kind # "dict" THEN <<OpRaise>>
        ELSE CutAtRaise(
               Loop(data.equations,
                    MentionOps(Get(data.equations), "Equation",
                               "MENTIONS_EQUATION", paper_node))
            \o Loop(data.methodologies,
                    MentionOps(Get(data.methodologies), "Methodology",
                               "MENTIONS_METHODOLOGY", paper_node))
            \o Loop(data.technologies,
                    MentionOps(Get(data.technologies), "Technology",
                               "MENTIONS_TECHNOLOGY", paper_node))
            \o Loop(data.causal_relationships,
                    CausalOps(Get(data.causal_relationships), paper_node)))

----------------------------------------------------------------------------
(* The dataset: file names of the walk and the metadata table *)

F1 == <<"1">> \o DotPdf
F1v2 == <<"1", "v", "2">> \o DotPdf
F2 == <<"2">> \o DotPdf
F9 == <<"9">> \o DotPdf
FReadme == <<"a", ".", "t", "x", "t">>
FileNames == {F1, F1v2, F2, F9, FReadme}

\* a metadata row: whether it has an 'abstract' key and of how many words,
\* and its 'authors' and 'categories' strings ("," and " " are atoms)
Row(has_abstract, abstract_words, authors, categories) ==
    [has_abstract |-> has_abstract, abstract_words |-> abstract_words,
     authors |-> authors, categories |-> categories]

\* Tables whose rows all carry the same keys, one row per id.  TableA holds
\* the record {"id": "1", "abstract": "A causes B.", "authors": "Jane Doe",
\* "categories": "cs.AI"} and a two-author, two-category paper whose
\* abstract is the empty string; TableB's one row has no abstract key and
\* empty authors and categories.
TableA ==
    (<<"1">> :> Row(TRUE, 3, <<"Jane Doe">>, <<"cs.AI">>))
    @@ (<<"2">> :> Row(TRUE, 0, <<"Jane Doe", ",", " ", "John Roe">>,
                       <<"cs.AI", " ", "cs.LG">>))
TableB == (<<"1">> :> Row(FALSE, 0, <<>>, <<>>))
MetadataTables == {TableA, TableB}

RECURSIVE Strip(_)
\* s.strip(), " " being the whitespace atom
Strip(s) ==
    IF s = <<>> THEN <<>>
    ELSE IF Head(s) = " " THEN Strip(Tail(s))
    ELSE IF s[Len(s)] = " " THEN Strip(SubSeq(s, 1, Len(s) - 1))
    ELSE s

RECURSIVE StripNonEmpty(_)
\* [x.strip() for x in parts if x.strip()]
StripNonEmpty(parts) ==
    IF parts = <<>> THEN <<>>
    ELSE (IF Strip(Head(parts)) # <<>> THEN <<Strip(Head(parts))>> ELSE <<>>)
         \o StripNonEmpty(Tail(parts))

\* the paper dict of one metadata row; properties the graph carries but no
\* statement reads back (title, dates, url, doi, journal_ref) are left out
BuildPaperDict(id, paper_meta) ==
    LET categories == StripNonEmpty(SplitOn(paper_meta.categories, " "))
    IN  [arxiv_id |-> id,
         summary |-> IF paper_meta.has_abstract
                     THEN Text("abstract", paper_meta.abstract_words)
                     ELSE Text("placeholder", PlaceholderWords),
         authors |-> StripNonEmpty(SplitOn(paper_meta.authors, ",")),
         categories |-> categories,
         primary_category |-> IF categories # <<>> THEN categories[1] ELSE <<>>]

\* full_text if full_text and len(full_text.split()) > 100 else paper['summary']
SelectText(text, p) ==
    IF Truthy(text) /\ text.words > MinFullTextWords THEN text ELSE p.summary

----------------------------------------------------------------------------
(* The ingestion process *)

NoneDone == [paper |-> NoPaper, data |-> NoData, n_nodes |-> 0, n_rels |-> 0]

Envs ==
    [api_key : BOOLEAN, pdf_dir : {"missing", "empty", "ok"}, metadata_file : BOOLEAN]

\* scaled: the source sets 100; the model keeps it below MaxFiles so that
\* the budget is reached
PROCESSING_LIMIT == 2

Init ==
    /\ pc = "start"
    /\ env \in Envs
    /\ store_merges \in BOOLEAN
    \* a fresh store, or what an earlier run left behind
    /\ \/ nodes = <<>> /\ constraints = {}
       \/ nodes = <<[label |-> "Paper", key |-> <<"0">>]>>
          /\ constraints = UniquenessConstraints
    /\ rels = <<>>
    /\ mutated = FALSE
    /\ exit_code = 0
    /\ metadata_map = <<>>
    /\ processed_count = 0
    /\ dirs_seen = 0
    /\ files_seen = 0
    /\ filename = <<>>
    /\ arxiv_id = <<>>
    /\ paper = NoPaper
    /\ full_text = NoText
    /\ text_for_llm = NoText
    /\ llm_output = NoResponse
    /\ extracted_data = NoData
    /\ ops = <<>>
    /\ last_done = NoneDone
    /\ fn_pc = "off"
    /\ fn_in = <<>>
    /\ fn_out = <<>>
    /\ fn_out2 = <<>>

\* what a completed document leaves for comparison with the next one
Done(p, data, ns, rs) ==
    [paper |-> p, data |-> data, n_nodes |-> Len(ns), n_rels |-> Len(rs)]

Exit(code) == pc' = "exited" /\ exit_code' = code

\* lines 16-18: no API key raises at import
CheckApiKey ==
    /\ pc = "start"
    /\ IF env.api_key THEN pc' = "connect" /\ UNCHANGED exit_code ELSE Exit(1)
    /\ UNCHANGED <<env, store_merges, storeVars, walkVars, docVars, fnVars>>

\* lines 37-40: connect, then MATCH (n) DETACH DELETE n
ResetGraph ==
    /\ pc = "connect"
    /\ nodes' = <<>>
    /\ rels' = <<>>
    /\ mutated' = TRUE
    /\ pc' = "constraints"
    /\ UNCHANGED <<env, store_merges, exit_code, constraints, walkVars, docVars, fnVars>>

\* lines 44-51
CreateConstraints ==
    /\ pc = "constraints"
    /\ constraints' = constraints \cup UniquenessConstraints
    /\ mutated' = TRUE
    /\ pc' = "main"
    /\ UNCHANGED <<env, store_merges, exit_code, nodes, rels, walkVars, docVars, fnVars>>

\* lines 339-342
CheckPdfDirectory ==
    /\ pc = "main"
    /\ IF env.pdf_dir = "ok" THEN pc' = "check_metadata" /\ UNCHANGED exit_code
       ELSE Exit(1)
    /\ UNCHANGED <<env, store_merges, storeVars, walkVars, docVars, fnVars>>

\* lines 345-348
CheckMetadataFile ==
    /\ pc = "check_metadata"
    /\ IF env.metadata_file THEN pc' = "load" /\ UNCHANGED exit_code ELSE Exit(1)
    /\ UNCHANGED <<env, store_merges, storeVars, walkVars, docVars, fnVars>>

\* lines 351 and 175-183: load the table, index it by id, start the walk
LoadMetadata ==
    /\ pc = "load"
    /\ metadata_map' \in MetadataTables
    /\ processed_count' = 0
    /\ pc' = "walk_dirs"
    /\ UNCHANGED <<env, store_merges, exit_code, storeVars, dirs_seen, files_seen,
                   last_done, docVars, fnVars>>

\* line 184: os.walk yields the next directory
NextDirectory ==
    /\ pc = "walk_dirs"
    /\ dirs_seen < MaxDirs
    /\ dirs_seen' = dirs_seen + 1
    /\ pc' = "walk_files"
    /\ UNCHANGED <<env, store_merges, exit_code, storeVars, metadata_map,
                   processed_count, files_seen, last_done, docVars, fnVars>>

\* lines 329 and 356: the walk is over, the run ends normally
FinishRun ==
    /\ pc = "walk_dirs"
    /\ Exit(0)
    /\ UNCHANGED <<env, store_merges, storeVars, walkVars, docVars, fnVars>>

\* a budget test that lets one document too many through
BudgetSpentPastLimit(count) == count > PROCESSING_LIMIT

\* line 186: the test made before every file of the walk
BudgetSpent(count) == count >= PROCESSING_LIMIT

\* lines 186-188: the budget is spent, break out of this directory's files
LimitReached ==
    /\ pc = "walk_files"
    /\ BudgetSpent(processed_count)
    /\ pc' = "walk_dirs"
    /\ UNCHANGED <<env, store_merges, exit_code, storeVars, walkVars, docVars, fnVars>>

\* line 185: this directory has no further file
DirectoryDone ==
    /\ pc = "walk_files"
    /\ ~BudgetSpent(processed_count)
    /\ pc' = "walk_dirs"
    /\ UNCHANGED <<env, store_merges, exit_code, storeVars, walkVars, docVars, fnVars>>

\* lines 185-192: the next file name; one not ending in .pdf is passed over
NextFile ==
    /\ pc = "walk_files"
    /\ ~BudgetSpent(processed_count)
    /\ files_seen < MaxFiles
    /\ files_seen' = files_seen + 1
    /\ \E f \in FileNames :
         /\ filename' = f
         /\ IF EndsWithPdf(f)
            THEN arxiv_id' = get_arxiv_id_from_pdf_filename(f) /\ pc' = "lookup"
            ELSE arxiv_id' = arxiv_id /\ pc' = "walk_files"
    /\ UNCHANGED <<env, store_merges, exit_code, storeVars, metadata_map,
                   processed_count, dirs_seen, last_done, paper, full_text,
                   text_for_llm, llm_output, extracted_data, ops, fnVars>>

\* lines 194-195 and 327-328: no metadata row for the id, the file is skipped
LookupMetadata ==
    /\ pc = "lookup"
    /\ IF arxiv_id # <<>> /\ arxiv_id \in DOMAIN metadata_map
       THEN pc' = "build_paper"
       ELSE pc' = "walk_files"
    /\ UNCHANGED <<env, store_merges, exit_code, storeVars, walkVars, docVars, fnVars>>

\* lines 221-248
BuildPaper ==
    /\ pc = "build_paper"
    /\ paper' = BuildPaperDict(arxiv_id, metadata_map[arxiv_id])
    /\ ops' = PaperOps(paper')
    /\ full_text' = NoText
    /\ text_for_llm' = NoText
    /\ llm_output' = NoResponse
    /\ extracted_data' = NoData
    /\ pc' = "store_paper"
    /\ UNCHANGED <<env, store_merges, exit_code, storeVars, walkVars, filename,
                   arxiv_id, fnVars>>

\* one graph.merge or graph.create of lines 261-276 and 285-319, or the
\* exception that ends the run through the handler of lines 357-361
StoreStep ==
    /\ pc \in {"store_paper", "store_facts"}
    /\ ops # <<>>
    /\ LET o == Head(ops)
       IN  \/ /\ o.op = "merge"
              /\ nodes' = MergeNode(nodes, o.node.label, o.node.key)
              /\ mutated' = TRUE
              /\ ops' = Tail(ops)
              /\ UNCHANGED <<pc, exit_code, rels>>
           \/ /\ o.op = "create"
              /\ rels' = CreateRel(rels, nodes, store_merges, o.type, o.node, o.to, o.why)
              /\ mutated' = TRUE
              /\ ops' = Tail(ops)
              /\ UNCHANGED <<pc, exit_code, nodes>>
           \/ /\ o.op = "raise"
              /\ Exit(1)
              /\ UNCHANGED <<nodes, rels, mutated, ops>>
    /\ UNCHANGED <<env, store_merges, constraints, walkVars, filename, arxiv_id,
                   paper, full_text, text_for_llm, llm_output, extracted_data, fnVars>>

\* line 278 and extract_text_from_pdf: the PDF's text, "" when it cannot be read
ExtractText ==
    /\ pc = "store_paper"
    /\ ops = <<>>
    /\ \E w \in PdfWordCounts : full_text' = Text("pdf", w)
    /\ pc' = "select"
    /\ UNCHANGED <<env, store_merges, exit_code, storeVars, walkVars, filename,
                   arxiv_id, paper, text_for_llm, llm_output, extracted_data, ops, fnVars>>

\* lines 279-281 and 322-323
SelectAnalysisInput ==
    /\ pc = "select"
    /\ text_for_llm' = SelectText(full_text, paper)
    /\ IF Truthy(text_for_llm') THEN pc' = "analyze" ELSE pc' = "doc_done"
    /\ UNCHANGED <<env, store_merges, exit_code, storeVars, walkVars, filename,
                   arxiv_id, paper, full_text, llm_output, extracted_data, ops, fnVars>>

\* line 283
Analyze ==
    /\ pc = "analyze"
    /\ \E r \in LLMResponses :
         /\ llm_output' = r
         /\ extracted_data' = analyze_text_with_llm(text_for_llm, r)
    /\ ops' = FactOps(extracted_data', paper)
    /\ pc' = "store_facts"
    /\ UNCHANGED <<env, store_merges, exit_code, storeVars, walkVars, filename,
                   arxiv_id, paper, full_text, text_for_llm, fnVars>>

\* lines 325-326: the document is complete
DocumentDone ==
    /\ \/ pc = "store_facts" /\ ops = <<>>
       \/ pc = "doc_done"
    /\ processed_count' = processed_count + 1
    /\ last_done' = Done(paper, extracted_data, nodes, rels)
    /\ pc' = "walk_files"
    /\ UNCHANGED <<env, store_merges, exit_code, storeVars, metadata_map,
                   dirs_seen, files_seen, docVars, fnVars>>

Next ==
    \/ CheckApiKey
    \/ ResetGraph
    \/ CreateConstraints
    \/ CheckPdfDirectory
    \/ CheckMetadataFile
    \/ LoadMetadata
    \/ NextDirectory
    \/ FinishRun
    \/ LimitReached
    \/ DirectoryDone
    \/ NextFile
    \/ LookupMetadata
    \/ BuildPaper
    \/ StoreStep
    \/ ExtractText
    \/ SelectAnalysisInput
    \/ Analyze
    \/ DocumentDone

Spec == Init /\ [][Next]_vars

mainVars == <<runVars, storeVars, walkVars, docVars>>

\* the ingestion process not started: the state the function harnesses run in
MainIdle ==
    /\ pc = "off"
    /\ env = [api_key |-> TRUE, pdf_dir |-> "ok", metadata_file |-> TRUE]
    /\ store_merges = FALSE
    /\ nodes = <<>>
    /\ rels = <<>>
    /\ constraints = {}
    /\ mutated = FALSE
    /\ exit_code = 0
    /\ metadata_map = <<>>
    /\ processed_count = 0
    /\ dirs_seen = 0
    /\ files_seen = 0
    /\ last_done = NoneDone
    /\ filename = <<>>
    /\ arxiv_id = <<>>
    /\ paper = NoPaper
    /\ full_text = NoText
    /\ text_for_llm = NoText
    /\ llm_output = NoResponse
    /\ extracted_data = NoData
    /\ ops = <<>>

----------------------------------------------------------------------------
(* Harness for get_arxiv_id_from_pdf_filename *)

BaseNameAlphabet == {"1", "v", "a", "."}
PdfFileNames == {b \o DotPdf : b \in SeqsUpTo(BaseNameAlphabet, MaxBaseLen)}

IdInit ==
    /\ MainIdle
    /\ fn_pc = "id_call"
    /\ fn_in \in PdfFileNames
    /\ fn_out = <<>>
    /\ fn_out2 = <<>>

CallGetArxivId ==
    /\ fn_pc = "id_call"
    /\ EndsWithPdf(fn_in)
    /\ fn_out' = get_arxiv_id_from_pdf_filename(fn_in)
    /\ fn_pc' = "returned"
    /\ UNCHANGED <<fn_in, fn_out2, mainVars>>

IdSpec == IdInit /\ [][CallGetArxivId]_vars

----------------------------------------------------------------------------
(* Harness for sanitize_text_for_llm *)

\* 'a', space, tab, e-acute, no-break space
TextAlphabet == {97, 32, 9, 233, 160}
Texts == SeqsUpTo(TextAlphabet, MaxTextLen)

SanInit ==
    /\ MainIdle
    /\ fn_pc = "call"
    /\ fn_in \in Texts
    /\ fn_out = <<>>
    /\ fn_out2 = <<>>

Sanitize ==
    /\ fn_pc = "call"
    /\ fn_out' = sanitize_text_for_llm(fn_in)
    /\ fn_pc' = "once"
    /\ UNCHANGED <<fn_in, fn_out2, mainVars>>

SanitizeAgain ==
    /\ fn_pc = "once"
    /\ fn_out2' = sanitize_text_for_llm(fn_out)
    /\ fn_pc' = "twice"
    /\ UNCHANGED <<fn_in, fn_out, mainVars>>

SanNext == Sanitize \/ SanitizeAgain

SanSpec == SanInit /\ [][SanNext]_vars

----------------------------------------------------------------------------
(* neo4j_query_api.py: the two read queries, over the store's content *)

\* the default of both queries' limit parameter
DefaultLimit == 20

\* LIMIT n: all matches when there are at most n, else some n of them
Limited(matches, limit) ==
    IF Cardinality(matches) <= limit THEN matches
    ELSE CHOOSE T \in SUBSET matches : Cardinality(T) = limit

IsCauses(r) == r.type = "CAUSES"

\* MATCH (c1:Cause)-[r1:CAUSES]->(e1:Effect) MATCH (e1)-[r2:CAUSES]->(e2:Effect)
ChainMatches ==
    {m \in (DOMAIN rels) \X (DOMAIN rels) :
        /\ IsCauses(rels[m[1]])
        /\ nodes[rels[m[1]].start].label = "Cause"
        /\ nodes[rels[m[1]].end].label = "Effect"
        /\ IsCauses(rels[m[2]])
        /\ rels[m[2]].start = rels[m[1]].end
        /\ nodes[rels[m[2]].end].label = "Effect"}

\* one dict per match; match tells apart rows of equal content
find_causal_chains(limit) ==
    {[match |-> m,
      initial_cause |-> nodes[rels[m[1]].start].key,
      intermediate_effect |-> nodes[rels[m[1]].end].key,
      final_effect |-> nodes[rels[m[2]].end].key,
      explanation_step1 |-> rels[m[1]].why,
      explanation_step2 |-> rels[m[2]].why] : m \in Limited(ChainMatches, limit)}

\* query_revised: MATCH (c1:Cause)-[r1:CAUSES]->(e:Effect)
\* MATCH (c2:Cause)-[r2:CAUSES]->(e) WHERE id(c1) < id(c2)
SharedMatches ==
    {m \in (DOMAIN rels) \X (DOMAIN rels) :
        /\ IsCauses(rels[m[1]])
        /\ nodes[rels[m[1]].start].label = "Cause"
        /\ nodes[rels[m[1]].end].label = "Effect"
        /\ IsCauses(rels[m[2]])
        /\ nodes[rels[m[2]].start].label = "Cause"
        /\ rels[m[2]].end = rels[m[1]].end
        /\ rels[m[1]].start < rels[m[2]].start}

find_shared_effects_from_multiple_causes(limit) ==
    {[match |-> m,
      shared_effect |-> nodes[rels[m[1]].end].key,
      cause_a |-> nodes[rels[m[1]].start].key,
      cause_b |-> nodes[rels[m[2]].start].key,
      why_a_to_effect |-> rels[m[1]].why,
      why_b_to_effect |-> rels[m[2]].why] : m \in Limited(SharedMatches, limit)}

----------------------------------------------------------------------------
(* Vocabulary of the properties *)

NodeSet == {nodes[i] : i \in DOMAIN nodes}

\* a relationship by its endpoints' labels and keys instead of their ids
RelView(r) ==
    [type |-> r.type, from |-> nodes[r.start], to |-> nodes[r.end], why |-> r.why]
RelSet == {RelView(rels[i]) : i \in DOMAIN rels}

Edge(type, from_label, from_key, to_label, to_key, why) ==
    [type |-> type, from |-> Ref(from_label, from_key),
     to |-> Ref(to_label, to_key), why |-> why]

\* the current document has run all its statements and is about to be counted
DocumentComplete == pc = "store_facts" /\ ops = <<>>

\* ... and its paper and facts are those of the document completed before it
RepeatedUpsert ==
    /\ DocumentComplete
    /\ processed_count >= 1
    /\ last_done.paper = paper
    /\ last_done.data = extracted_data

StartupFails == ~env.api_key \/ env.pdf_dir # "ok" \/ ~env.metadata_file

Crashed == pc = "exited" /\ exit_code # 0 /\ ~StartupFails

\* all four collections of a result read empty
AllEmpty(data) ==
    /\ data.kind = "dict"
    /\ Get(data.equations) = <<>> /\ data.equations.tag # "null"
    /\ Get(data.methodologies) = <<>> /\ data.methodologies.tag # "null"
    /\ Get(data.technologies) = <<>> /\ data.technologies.tag # "null"
    /\ Get(data.causal_relationships) = <<>> /\ data.causal_relationships.tag # "null"

----------------------------------------------------------------------------
(* Properties *)

\* C1: the store never holds two nodes of the same label and key value, and
\* upserting the paper and facts of the previous document once more leaves
\* the number of nodes where it was.
C1_UniqueNodes ==
    /\ \A i, j \in DOMAIN nodes :
         (nodes[i].label = nodes[j].label /\ nodes[i].key = nodes[j].key) => i = j
    /\ RepeatedUpsert => Len(nodes) = last_done.n_nodes

\* C1 witness: a paper with causal facts has been upserted a second time
\* with the same facts.
C1_Witness ==
    /\ RepeatedUpsert
    /\ extracted_data = OnlyAB
    /\ HasNode(nodes, "Cause", DescA)
    /\ HasNode(nodes, "Effect", DescB)

\* C2: there is at most one relationship of a given type between a given
\* ordered pair of nodes, and repeating the upsert of the previous document
\* leaves the number of relationships where it was.
C2_RelationshipUpsert ==
    /\ \A i, j \in DOMAIN rels :
         SameRel(rels[i], rels[j].type, rels[j].start, rels[j].end) => i = j
    /\ RepeatedUpsert => Len(rels) = last_done.n_rels

\* C3: an answer that is not JSON, or is JSON of another shape than the
\* expected one, or a failed call, gives a result whose four collections
\* are empty, and the run does not end in the exception handler.
C3_FailSoft ==
    (llm_output \in MisshapenResponses \cup FailedResponses)
        => (AllEmpty(extracted_data) /\ ~Crashed)

\* C4: once the graph holds CAUSES A -> B (why w1) and CAUSES B -> C (why
\* w2) as ingestion stores them, the causal-chain query has a row (A, B, C)
\* with w1 and w2.
C4_CausalChain ==
    (/\ Edge("CAUSES", "Cause", DescA, "Effect", DescB, <<"w1">>) \in RelSet
     /\ Edge("CAUSES", "Cause", DescB, "Effect", DescC, <<"w2">>) \in RelSet)
    => \E row \in find_causal_chains(DefaultLimit) :
         /\ row.initial_cause = DescA
         /\ row.intermediate_effect = DescB
         /\ row.final_effect = DescC
         /\ row.explanation_step1 = <<"w1">>
         /\ row.explanation_step2 = <<"w2">>

\* the row's abstract is a non-empty string
HasAbstract(row) == row.has_abstract /\ row.abstract_words > 0

\* C5: right after the selection, a full text of more than 100 words is the
\* analysis input; otherwise a non-empty abstract is; with neither, the
\* extraction client is not called.
C5_InputSelection ==
    (pc \in {"analyze", "doc_done"}) =>
        LET row == metadata_map[arxiv_id]
        IN  /\ full_text.words > 100
                => (pc = "analyze" /\ text_for_llm = full_text)
            /\ (full_text.words <= 100 /\ HasAbstract(row))
                => (pc = "analyze"
                    /\ text_for_llm = Text("abstract", row.abstract_words))
            /\ (full_text.words <= 100 /\ ~HasAbstract(row))
                => pc = "doc_done"

\* the run of the end-to-end scenario: one file, paper "1" of TableA, no
\* text from the PDF, one causal relationship A -> B (w1) from the model
EndToEndRun ==
    /\ pc = "exited"
    /\ exit_code = 0
    /\ files_seen = 1
    /\ processed_count = 1
    /\ metadata_map = TableA
    /\ arxiv_id = <<"1">>
    /\ full_text = Text("pdf", 0)
    /\ llm_output = Response("json", OnlyAB)

\* C6: the end-to-end scenario ends with exactly the five nodes and six
\* relationships of the expected graph.
C6_EndToEnd ==
    EndToEndRun =>
        /\ Len(nodes) = 5
        /\ NodeSet = {Ref("Paper", <<"1">>), Ref("Author", <<"Jane Doe">>),
                      Ref("Category", <<"cs.AI">>), Ref("Cause", DescA),
                      Ref("Effect", DescB)}
        /\ Len(rels) = 6
        /\ RelSet =
            {Edge("AUTHORED", "Author", <<"Jane Doe">>, "Paper", <<"1">>, <<>>),
             Edge("HAS_CATEGORY", "Paper", <<"1">>, "Category", <<"cs.AI">>, <<>>),
             Edge("HAS_PRIMARY_CATEGORY", "Paper", <<"1">>, "Category", <<"cs.AI">>, <<>>),
             Edge("IDENTIFIES_CAUSE", "Paper", <<"1">>, "Cause", DescA, <<>>),
             Edge("IDENTIFIES_EFFECT", "Paper", <<"1">>, "Effect", DescB, <<>>),
             Edge("CAUSES", "Cause", DescA, "Effect", DescB, <<"w1">>)}

\* C6 witness: the scenario's run has ended.
C6_Witness == EndToEndRun /\ Len(rels) > 0

\* C7: a run whose startup checks fail ends with a non-zero exit and has
\* issued no write to the graph store.
C7_NoMutationOnStartupFailure ==
    (pc = "exited" /\ StartupFails) => (exit_code # 0 /\ ~mutated)

\* C8: the identifier of a name ending in ".pdf" is its base name cut before
\* the 'v' when the base name has exactly one 'v' followed by one or more
\* digits up to its end, and the whole base name otherwise.
C8_IdentifierDerivation ==
    fn_pc = "returned" =>
        LET base == SubSeq(fn_in, 1, Len(fn_in) - 4)
            versioned(k) ==
                /\ base[k] = "v"
                /\ \A j \in 1..Len(base) : base[j] = "v" => j = k
                /\ k < Len(base)
                /\ \A j \in (k + 1)..Len(base) : base[j] \in Digits
        IN  IF \E k \in 1..Len(base) : versioned(k)
            THEN \E k \in 1..Len(base) :
                    versioned(k) /\ fn_out = SubSeq(base, 1, k - 1)
            ELSE fn_out = base

\* C8 witness: a version suffix was stripped from a name with an identifier
\* before it.
C8_Witness ==
    /\ fn_pc = "returned"
    /\ fn_out # <<>>
    /\ Len(fn_out) < Len(fn_in) - 4

\* C9: sanitizing the sanitizer's output changes nothing, and the output is
\* ASCII, holds no whitespace but single spaces between words, and neither
\* starts nor ends with one.
C9_SanitizerIdempotent ==
    /\ fn_pc \in {"once", "twice"} =>
        /\ \A i \in 1..Len(fn_out) :
             IsAscii(fn_out[i]) /\ (fn_out[i] \in Whitespace => fn_out[i] = 32)
        /\ \A i \in 1..(Len(fn_out) - 1) : ~(fn_out[i] = 32 /\ fn_out[i + 1] = 32)
        /\ fn_out # <<>> => (fn_out[1] # 32 /\ fn_out[Len(fn_out)] # 32)
    /\ fn_pc = "twice" => fn_out2 = fn_out

\* C9 witness: a text with a non-ASCII character and a whitespace run has
\* been sanitized twice.
C9_Witness ==
    /\ fn_pc = "twice"
    /\ \E i \in 1..Len(fn_in) : ~IsAscii(fn_in[i])
    /\ \E i \in 1..(Len(fn_in) - 1) : fn_in[i] \in Whitespace /\ fn_in[i + 1] \in Whitespace
    /\ Len(fn_out) >= 3

\* C10: with fewer rows than the limit, every two distinct Cause nodes that
\* both have a CAUSES relationship to one Effect node appear, as a pair for
\* that effect, in exactly one row of the shared-effect query.
C10_SharedEffectOnce ==
    LET rows == find_shared_effects_from_multiple_causes(DefaultLimit)
        causes(e) == {rels[i].start : i \in {k \in DOMAIN rels :
                        /\ IsCauses(rels[k]) /\ rels[k].end = e
                        /\ nodes[rels[k].start].label = "Cause"}}
    IN  Cardinality(rows) < DefaultLimit =>
          \A e \in {i \in DOMAIN nodes : nodes[i].label = "Effect"} :
            \A c1, c2 \in causes(e) :
              c1 # c2 =>
                Cardinality({row \in rows :
                    /\ row.shared_effect = nodes[e].key
                    /\ {row.cause_a, row.cause_b} = {nodes[c1].key, nodes[c2].key}}) = 1

----------------------------------------------------------------------------
(* C11 *)

\* the graph's content, as a document's statements change it
graphVars == <<nodes, rels>>

\* the positions of one document between its identification and its end
DocumentStages ==
    {"lookup", "build_paper", "store_paper", "select", "analyze",
     "store_facts", "doc_done"}

\* the two ways a document ends without analysis: no metadata row for its
\* identifier, or no usable analysis input
SkipsOnMetadata == pc = "lookup" /\ pc' = "walk_files"
SkipsOnInput == pc = "doc_done"

\* C11: a document changes the graph only once its metadata have been looked
\* up, its text extracted, its analysis input selected and its facts
\* extracted (the position store_facts), and a document that is skipped, for
\* its identifier has no metadata row or it has no usable analysis input,
\* changes neither the graph nor the processed counter.
C11_StateOrderAndSkipFrame ==
    [][/\ (pc \in DocumentStages /\ graphVars' # graphVars) => pc = "store_facts"
       /\ (SkipsOnMetadata \/ SkipsOnInput) =>
              UNCHANGED <<graphVars, processed_count>>]_vars

----------------------------------------------------------------------------
(* C12 *)

\* the step that ends a document: line 326
CompletesDocument ==
    /\ pc \in {"store_facts", "doc_done"}
    /\ pc' = "walk_files"

\* C12: the processed counter starts at zero, grows by exactly one on each
\* completed document and on no other step, and never exceeds
\* PROCESSING_LIMIT; once it equals PROCESSING_LIMIT no document is in work
\* and none is taken from the walk any more (no file name is read, the graph
\* and the counter stay as they are), and the run keeps exit code 0, the
\* normal end.
C12_ProcessingBudget ==
    /\ processed_count = 0
    /\ [](processed_count \in 0..PROCESSING_LIMIT)
    /\ [](pc \in DocumentStages => processed_count < PROCESSING_LIMIT)
    /\ [][/\ CompletesDocument => processed_count' = processed_count + 1
          /\ processed_count' # processed_count => CompletesDocument]_vars
    /\ [][processed_count = PROCESSING_LIMIT =>
              /\ UNCHANGED <<graphVars, processed_count, files_seen, filename,
                             arxiv_id, paper, llm_output>>
              /\ pc' \in {"walk_dirs", "walk_files", "exited"}
              /\ exit_code' = 0]_vars

\* the budget was spent after exactly PROCESSING_LIMIT files and the run has
\* ended normally
C12_Witness ==
    /\ pc = "exited"
    /\ exit_code = 0
    /\ processed_count = PROCESSING_LIMIT
    /\ files_seen = PROCESSING_LIMIT

----------------------------------------------------------------------------
(* C13 *)

\* in the statement sequence q every create stands after the merges of both
\* of its endpoints
EndpointsMergedFirst(q) ==
    \A i \in DOMAIN q :
        q[i].op = "create" =>
            /\ \E j \in 1..(i - 1) :
                   q[j] = OpMerge(q[i].node.label, q[i].node.key)
            /\ \E j \in 1..(i - 1) :
                   q[j] = OpMerge(q[i].to.label, q[i].to.key)

\* the statement about to run creates a relationship
CreatesNext ==
    /\ pc \in {"store_paper", "store_facts"}
    /\ ops # <<>>
    /\ Head(ops).op = "create"

\* the current document's answer holds two incomplete causal items between
\* two complete ones, and all its statements have run
IncompleteItemsPassed == DocumentComplete /\ extracted_data = AlsoCB

\* C13: every relationship is created only after both of its endpoint nodes
\* have been upserted (in the document's statement order, and in the store
\* when the create runs), so no relationship of the graph lacks an endpoint
\* node; a CAUSES edge runs from the Cause to the Effect upserted before it;
\* a causal item without cause or without effect leaves no Cause node, no
\* Effect node and no edge, and the items after it are still written.
C13_EndpointsBeforeEdge ==
    /\ pc \in {"store_paper", "store_facts"} =>
           EndpointsMergedFirst(
               IF pc = "store_paper" THEN PaperOps(paper)
               ELSE PaperOps(paper) \o FactOps(extracted_data, paper))
    /\ CreatesNext =>
           /\ HasNode(nodes, Head(ops).node.label, Head(ops).node.key)
           /\ HasNode(nodes, Head(ops).to.label, Head(ops).to.key)
    /\ \A i \in DOMAIN rels :
           /\ rels[i].start \in DOMAIN nodes
           /\ rels[i].end \in DOMAIN nodes
           /\ IsCauses(rels[i]) =>
                  /\ nodes[rels[i].start].label = "Cause"
                  /\ nodes[rels[i].end].label = "Effect"
    /\ \A n \in NodeSet : n.key # DescD
    /\ IncompleteItemsPassed =>
           /\ Edge("CAUSES", "Cause", DescC, "Effect", DescB, <<"w3">>) \in RelSet
           /\ Edge("CAUSES", "Cause", DescA, "Effect", DescB, <<"w5">>) \in RelSet

\* the document with the incomplete items is complete and has CAUSES edges
C13_Witness ==
    /\ IncompleteItemsPassed
    /\ \E i \in DOMAIN rels : IsCauses(rels[i])

----------------------------------------------------------------------------
(* C14 *)

\* a relationship of the given type from node s to node e
HasRel(type, s, e) == \E i \in DOMAIN rels : SameRel(rels[i], type, s, e)

\* the Paper nodes whose metadata row yields an empty category list
PapersWithoutCategories ==
    {i \in DOMAIN nodes :
        /\ nodes[i].label = "Paper"
        /\ nodes[i].key \in DOMAIN metadata_map
        /\ BuildPaperDict(nodes[i].key, metadata_map[nodes[i].key]).categories = <<>>}

\* C14: in every graph state, a HAS_PRIMARY_CATEGORY edge runs from a Paper
\* to a Category to which the same Paper also has a HAS_CATEGORY edge, and a
\* Paper whose category list is empty has no edge of either type.
C14_PrimaryCategory ==
    /\ \A i \in DOMAIN rels :
           rels[i].type = "HAS_PRIMARY_CATEGORY" =>
               /\ nodes[rels[i].start].label = "Paper"
               /\ nodes[rels[i].end].label = "Category"
               /\ HasRel("HAS_CATEGORY", rels[i].start, rels[i].end)
    /\ \A i \in DOMAIN rels :
           rels[i].type \in {"HAS_CATEGORY", "HAS_PRIMARY_CATEGORY"} =>
               rels[i].start \notin PapersWithoutCategories

\* a paper of two categories has its primary-category edge
C14_Witness ==
    /\ Len(paper.categories) = 2
    /\ \E i \in DOMAIN rels :
           /\ rels[i].type = "HAS_PRIMARY_CATEGORY"
           /\ nodes[rels[i].start] = Ref("Paper", paper.arxiv_id)
           /\ nodes[rels[i].end] = Ref("Category", paper.primary_category)


============================================================================
